---- MODULE Spec2Model ----
(***************************************************************************)
(* Jigsaw controller (src/app.py): the grouping engine                     *)
(* (assign_topics_evenly, invert_to_experts, build_stammgruppen) and the   *)
(* phase / countdown state machine of PhaseFrame, SetupFrame._start and    *)
(* JigsawApp.                                                              *)
(*                                                                         *)
(* Python dicts are insertion ordered; a dict is modelled as a sequence of *)
(* <<key, value>> pairs in insertion order, a list as a sequence.          *)
(***************************************************************************)
EXTENDS Integers, Sequences, FiniteSets, TLC

(* ---------------------------------------------------------------------- *)
(* Bounds of the model                                                     *)
(* ---------------------------------------------------------------------- *)
MaxStudents == 4      \* longest roster handed to the grouping engine
MaxTopics == 3        \* longest topic list handed to the grouping engine
MaxSeed == 1          \* seeds are 0..MaxSeed (0..999999 in the program)
MaxPending == 2       \* cap on _tick callbacks waiting in the Tk after-queue
MaxSeconds == 61      \* "+1 Min" is pressed only while it keeps seconds_left <= MaxSeconds
MaxClass == 2         \* longest roster typed into the setup form
MaxGroups == 5        \* largest group_count handed to build_simple_groups

(* ---------------------------------------------------------------------- *)
(* Program constants                                                       *)
(* ---------------------------------------------------------------------- *)
DEFAULT_DUR_READ == 8
DEFAULT_DUR_EXPERT == 12
DEFAULT_DUR_STAMM == 15
SecondsPerMinute == 60

(* Names and topics; both pools are listed in alphabetical order, so the   *)
(* position in the pool is the rank Python's string comparison gives.      *)
NamePool == <<"Ada", "Ben", "Cem", "Dua", "Eli", "Fay">>
TopicPool == <<"T1", "T2", "T3", "T4", "T5">>
None == "None"

Names == {NamePool[i] : i \in 1..MaxStudents}
TopicNames == {TopicPool[i] : i \in 1..MaxTopics}
Seeds == 0..MaxSeed

Rank(n) == CHOOSE i \in 1..Len(NamePool) : NamePool[i] = n

Range(s) == {s[i] : i \in 1..Len(s)}
IsUnique(s) == \A i, j \in 1..Len(s) : s[i] = s[j] => i = j
Max2(a, b) == IF a >= b THEN a ELSE b
Min2(a, b) == IF a <= b THEN a ELSE b

SeqsUpTo(S, n) == UNION {[1..k -> S] : k \in 0..n}

(* clean_lines: ordered, duplicate-free lists of non-empty names *)
Rosters == {r \in SeqsUpTo(Names, MaxStudents) : IsUnique(r)}
(* the topic entry fields are read as they are: order kept, no clean-up *)
TopicLists == SeqsUpTo(TopicNames, MaxTopics)

(* ---------------------------------------------------------------------- *)
(* dict helpers                                                            *)
(* ---------------------------------------------------------------------- *)
DictKeys(d) == {d[i][1] : i \in 1..Len(d)}
DictGet(d, k) == d[CHOOSE i \in 1..Len(d) : d[i][1] = k][2]
DictSet(d, k, v) ==
    IF k \in DictKeys(d)
    THEN [i \in 1..Len(d) |-> IF d[i][1] = k THEN <<k, v>> ELSE d[i]]
    ELSE Append(d, <<k, v>>)

(* ---------------------------------------------------------------------- *)
(* State                                                                   *)
(* ---------------------------------------------------------------------- *)
VARIABLES
    (* AppState *)
    students, topics, dur_read, dur_expert, dur_stamm, seed,
    assignment, experts, stammgruppen, simple_groups,
    (* the group_count argument of a call of build_simple_groups; the     *)
    (* application passes it on from the setup form and does not keep it  *)
    group_count,
    phase, seconds_left, running,
    (* JigsawApp.phase_frame: None, or the PhaseFrame on screen *)
    phase_frame,
    (* state of btn_apply / btn_shuffle / the two comboboxes, set by _render *)
    controls,
    (* SetupFrame.var_seed, the seed field of the setup form *)
    var_seed,
    (* PhaseFrame._timer_job: None, "pending" (id of a callback still in the *)
    (* after-queue) or "fired" (id of a callback that has already run)       *)
    timer_job,
    (* number of _tick callbacks of the current PhaseFrame in the after-queue *)
    after_queue,
    (* the operation that ran last, with its outcome *)
    last_op,
    (* countdown bookkeeping since the last operation other than a callback *)
    ref_running, ticks_remaining, ref_ticked,
    (* invocations of assign_topics_evenly on the current (students, topics, *)
    (* seed): n = 0 none yet, n = 1 an earlier one returned first, n = 2 the  *)
    (* operation that has just run invoked it again on these arguments        *)
    prev_call

appVars == <<students, topics, dur_read, dur_expert, dur_stamm, seed,
             assignment, experts, stammgruppen, simple_groups,
             phase, seconds_left, running>>
rosterVars == <<students, topics, dur_read, dur_expert, dur_stamm>>
groupVars == <<assignment, experts, stammgruppen>>
timerVars == <<phase, seconds_left, running>>
jobVars == <<timer_job, after_queue>>
refVars == <<ref_running, ticks_remaining, ref_ticked>>
vars == <<students, topics, dur_read, dur_expert, dur_stamm, seed,
          assignment, experts, stammgruppen, simple_groups, group_count,
          phase, seconds_left, running, phase_frame, controls, var_seed,
          timer_job, after_queue, last_op,
          ref_running, ticks_remaining, ref_ticked, prev_call>>

(* ---------------------------------------------------------------------- *)
(* random.Random(seed) and rng.shuffle                                     *)
(* The Mersenne Twister is abstracted by a small congruential generator:   *)
(* what matters is that the stream is a function of the seed alone.        *)
(* shuffle is CPython's: for i = n-1 down to 1, swap x[i] with             *)
(* x[randbelow(i+1)].                                                      *)
(* ---------------------------------------------------------------------- *)
RngSeed(sd) == (3 * sd + 1) % 7
RngNext(g) == (5 * g + 3) % 7
RandBelow(g, n) == g % n

Swap(x, i, j) == [x EXCEPT ![i] = x[j], ![j] = x[i]]

RECURSIVE ShuffleFrom(_, _, _)
ShuffleFrom(x, i, g) ==
    IF i < 2 THEN x
    ELSE ShuffleFrom(Swap(x, i, RandBelow(g, i) + 1), i - 1, RngNext(g))

Shuffle(x, sd) == ShuffleFrom(x, Len(x), RngSeed(sd))

(* ---------------------------------------------------------------------- *)
(* assign_topics_evenly                                                    *)
(* ---------------------------------------------------------------------- *)
(* topics[i % t] with an empty topic list and a non-empty roster raises    *)
(* IndexError; with an empty roster the loop body never runs.              *)
AssignRaises(studs, tops) == Len(tops) = 0 /\ Len(studs) > 0

(* variant: the topic index is clamped to the last topic instead of wrapping *)
RECURSIVE AssignLoopClamped(_, _, _, _)
AssignLoopClamped(shuffled, tops, i, mapping) ==
    IF i > Len(shuffled) THEN mapping
    ELSE AssignLoopClamped(shuffled, tops, i + 1,
             DictSet(mapping, shuffled[i],
                     tops[Min2(i, Max2(1, Len(tops)))]))

(* variant: the topics are handed out from the end of the list *)
RECURSIVE AssignLoopFromLast(_, _, _, _)
AssignLoopFromLast(shuffled, tops, i, mapping) ==
    IF i > Len(shuffled) THEN mapping
    ELSE AssignLoopFromLast(shuffled, tops, i + 1,
             DictSet(mapping, shuffled[i],
                     tops[Max2(1, Len(tops)) - ((i - 1) % Max2(1, Len(tops)))]))

RECURSIVE AssignLoop(_, _, _, _)
AssignLoop(shuffled, tops, i, mapping) ==
    IF i > Len(shuffled) THEN mapping
    ELSE AssignLoop(shuffled, tops, i + 1,
             DictSet(mapping, shuffled[i],
                     tops[((i - 1) % Max2(1, Len(tops))) + 1]))

(* variant: shuffled = students without .copy(): rng.shuffle then reorders *)
(* the roster of the session itself, so a later call starts from the order *)
(* the earlier call left behind (the key order of the stored assignment)    *)
assign_topics_evenly_inplace(studs, tops, sd) ==
    AssignLoop(Shuffle(IF Len(assignment) = Len(studs)
                       THEN [i \in 1..Len(assignment) |-> assignment[i][1]]
                       ELSE studs, sd),
               tops, 1, <<>>)

assign_topics_evenly(studs, tops, sd) ==
    AssignLoop(Shuffle(studs, sd), tops, 1, <<>>)

(* ---------------------------------------------------------------------- *)
(* invert_to_experts                                                       *)
(* ---------------------------------------------------------------------- *)
SortNames(s) == SortSeq(s, LAMBDA a, b : Rank(a) < Rank(b))

(* variant: experts[topic] = [student] instead of setdefault(...).append *)
RECURSIVE InvertLoopOverwrite(_, _, _)
InvertLoopOverwrite(asg, i, exp) ==
    IF i > Len(asg) THEN exp
    ELSE InvertLoopOverwrite(asg, i + 1, DictSet(exp, asg[i][2], <<asg[i][1]>>))

RECURSIVE InvertLoop(_, _, _)
InvertLoop(asg, i, exp) ==
    IF i > Len(asg) THEN exp
    ELSE LET student == asg[i][1]
             topic == asg[i][2]
             old == IF topic \in DictKeys(exp) THEN DictGet(exp, topic) ELSE <<>>
         IN InvertLoop(asg, i + 1, DictSet(exp, topic, Append(old, student)))

invert_to_experts(asg) ==
    LET exp == InvertLoop(asg, 1, <<>>)
    IN [k \in 1..Len(exp) |-> <<exp[k][1], SortNames(exp[k][2])>>]

(* ---------------------------------------------------------------------- *)
(* build_stammgruppen                                                      *)
(* ---------------------------------------------------------------------- *)
(* variant: one home group per topic instead of one per member of the largest bucket *)
TopicCount(expert_groups, k) == Len(expert_groups)

RECURSIVE MaxLen(_, _)
MaxLen(expert_groups, k) ==
    IF k > Len(expert_groups) THEN 0
    ELSE Max2(Len(expert_groups[k][2]), MaxLen(expert_groups, k + 1))

(* variant: the members of a topic are placed from the last group backwards *)
RECURSIVE PlaceMembersFromLast(_, _, _, _, _)
PlaceMembersFromLast(groups, topic, members, i, groups_count) ==
    IF i > Len(members) THEN groups
    ELSE LET g == groups_count - ((i - 1) % groups_count)
         IN PlaceMembersFromLast([groups EXCEPT ![g] = Append(@, <<members[i], topic>>)],
                                 topic, members, i + 1, groups_count)

(* the inner loop: member i (0-based) of one topic goes to group i % count *)
RECURSIVE PlaceMembers(_, _, _, _, _)
PlaceMembers(groups, topic, members, i, groups_count) ==
    IF i > Len(members) THEN groups
    ELSE LET g == ((i - 1) % groups_count) + 1
         IN PlaceMembers([groups EXCEPT ![g] = Append(@, <<members[i], topic>>)],
                         topic, members, i + 1, groups_count)

(* variant: the loop over the topics stops one topic early *)
RECURSIVE PlaceTopicsButLast(_, _, _, _)
PlaceTopicsButLast(groups, expert_groups, k, groups_count) ==
    IF k >= Len(expert_groups) THEN groups
    ELSE PlaceTopicsButLast(PlaceMembers(groups, expert_groups[k][1],
                                         expert_groups[k][2], 1, groups_count),
                            expert_groups, k + 1, groups_count)

RECURSIVE PlaceTopics(_, _, _, _)
PlaceTopics(groups, expert_groups, k, groups_count) ==
    IF k > Len(expert_groups) THEN groups
    ELSE PlaceTopics(PlaceMembers(groups, expert_groups[k][1],
                                  expert_groups[k][2], 1, groups_count),
                     expert_groups, k + 1, groups_count)

build_stammgruppen(expert_groups) ==
    LET groups_count == MaxLen(expert_groups, 1)
    IN IF Len(expert_groups) = 0 \/ groups_count = 0 THEN <<>>
       ELSE PlaceTopics([g \in 1..groups_count |-> <<>>], expert_groups, 1,
                        groups_count)

(* ---------------------------------------------------------------------- *)
(* build_simple_groups (called with a seed: random.Random(seed))           *)
(* ---------------------------------------------------------------------- *)
(* variant: count = group_count *)
SimpleCountUnclamped(studs, gc) == gc

(* count = min(group_count, len(students)) *)
SimpleCount(studs, gc) == Min2(gc, Len(studs))

(* variant: after one name per group, the rest of the roster goes to the
   first group *)
RECURSIVE DealNamesRestToFirst(_, _, _, _)
DealNamesRestToFirst(groups, shuffled, i, count) ==
    IF i > Len(shuffled) THEN groups
    ELSE DealNamesRestToFirst(
             [groups EXCEPT ![IF i > count THEN 1 ELSE i] = Append(@, shuffled[i])],
             shuffled, i + 1, count)

(* groups[idx % count].append(name) for every name of the shuffled roster *)
RECURSIVE DealNames(_, _, _, _)
DealNames(groups, shuffled, i, count) ==
    IF i > Len(shuffled) THEN groups
    ELSE DealNames([groups EXCEPT ![((i - 1) % count) + 1] = Append(@, shuffled[i])],
                   shuffled, i + 1, count)

build_simple_groups(studs, gc, sd) ==
    IF gc <= 0 \/ Len(studs) = 0 THEN <<>>
    ELSE LET count == SimpleCount(studs, gc)
         IN DealNames([g \in 1..count |-> <<>>], Shuffle(studs, sd), 1, count)

NoCall == [n |-> 0, first |-> <<>>]
(* prev_call after an operation that does not invoke assign_topics_evenly *)
Settled(c) == [c EXCEPT !.n = Min2(c.n, 1)]

(* JigsawApp.__init__: a fresh AppState, the setup form, no PhaseFrame.    *)
(* AppState draws its seed with random.randint; the form shows that seed.  *)
Init ==
    /\ students = <<>> /\ topics = <<>>
    /\ dur_read = DEFAULT_DUR_READ
    /\ dur_expert = DEFAULT_DUR_EXPERT
    /\ dur_stamm = DEFAULT_DUR_STAMM
    /\ seed \in Seeds
    /\ assignment = <<>> /\ experts = <<>> /\ stammgruppen = <<>>
    /\ simple_groups = <<>>
    /\ group_count = 0
    /\ phase = 1 /\ seconds_left = 0 /\ running = FALSE
    /\ phase_frame = None
    /\ controls = "disabled"
    /\ var_seed = seed
    /\ timer_job = None /\ after_queue = 0
    /\ last_op = "init"
    /\ ref_running = FALSE /\ ticks_remaining = 0 /\ ref_ticked = FALSE
    /\ prev_call = NoCall

(* ---------------------------------------------------------------------- *)
(* The grouping engine on its own: each action applies one function to     *)
(* arguments drawn from the bounded sets and leaves the result in the      *)
(* AppState field the program stores it in.                                *)
(* ---------------------------------------------------------------------- *)
(* every dict student -> topic over a duplicate-free list of names *)
Assignments ==
    {[i \in 1..Len(p[1]) |-> <<p[1][i], p[2][i]>>] :
        p \in {q \in Rosters \X SeqsUpTo(TopicNames, MaxStudents) :
                 Len(q[1]) = Len(q[2])}}

(* group counts: non-positive ones, and ones larger than every roster *)
GroupCounts == -1..MaxGroups

SortedSeqOf(S) == SelectSeq(NamePool, LAMBDA n : n \in S)

(* every dict topic -> alphabetically sorted list of names, the buckets    *)
(* pairwise disjoint and possibly empty, the keys in any order             *)
ExpertDicts ==
    {[k \in 1..Len(p[1]) |-> <<p[1][k], SortedSeqOf({n \in Names : p[2][n] = p[1][k]})>>] :
        p \in {t \in TopicLists : IsUnique(t)} \X [Names -> TopicNames \cup {None}]}

engineUnchanged ==
    UNCHANGED <<dur_read, dur_expert, dur_stamm, simple_groups, group_count, phase,
                seconds_left, running, phase_frame, controls, timer_job,
                after_queue, ref_running, ticks_remaining, ref_ticked>>

(* the arguments of one call, loaded into the fields the function reads *)
InitEngine ==
    /\ dur_read = DEFAULT_DUR_READ
    /\ dur_expert = DEFAULT_DUR_EXPERT
    /\ dur_stamm = DEFAULT_DUR_STAMM
    /\ simple_groups = <<>>
    /\ phase = 1 /\ seconds_left = 0 /\ running = FALSE
    /\ phase_frame = None /\ controls = "disabled"
    /\ timer_job = None /\ after_queue = 0
    /\ ref_running = FALSE /\ ticks_remaining = 0 /\ ref_ticked = FALSE
    /\ prev_call = NoCall
    /\ stammgruppen = <<>>
    /\ \/ /\ last_op = "args_assign_topics_evenly"
          /\ group_count = 0
          /\ students \in Rosters /\ topics \in TopicLists /\ seed \in Seeds
          /\ var_seed = seed
          /\ assignment = <<>> /\ experts = <<>>
       \/ /\ last_op = "args_invert_to_experts"
          /\ group_count = 0
          /\ assignment \in Assignments
          /\ students = [i \in 1..Len(assignment) |-> assignment[i][1]]
          /\ topics = <<>> /\ seed = 0 /\ var_seed = 0
          /\ experts = <<>>
       \/ /\ last_op = "args_build_stammgruppen"
          /\ group_count = 0
          /\ experts \in ExpertDicts
          /\ students = <<>> /\ topics = <<>> /\ seed = 0 /\ var_seed = 0
          /\ assignment = <<>>
       \/ /\ last_op = "args_build_simple_groups"
          /\ students \in Rosters /\ group_count \in GroupCounts
          /\ seed \in Seeds /\ var_seed = seed
          /\ topics = <<>>
          /\ assignment = <<>> /\ experts = <<>>

EngAssign ==
    /\ last_op = "args_assign_topics_evenly"
    /\ ~AssignRaises(students, topics)
    /\ assignment' = assign_topics_evenly(students, topics, seed)
    /\ last_op' = "assign_topics_evenly"
    /\ UNCHANGED <<students, topics, seed, experts, stammgruppen, var_seed, prev_call>>
    /\ engineUnchanged

EngAssignRaises ==
    /\ last_op = "args_assign_topics_evenly"
    /\ AssignRaises(students, topics)
    /\ last_op' = "assign_topics_evenly_IndexError"
    /\ UNCHANGED <<students, topics, seed, groupVars, var_seed, prev_call>>
    /\ engineUnchanged

EngInvert ==
    /\ last_op = "args_invert_to_experts"
    /\ experts' = invert_to_experts(assignment)
    /\ stammgruppen' = build_stammgruppen(experts')
    /\ last_op' = "invert_to_experts"
    /\ UNCHANGED <<students, topics, seed, assignment, var_seed, prev_call>>
    /\ engineUnchanged

EngBuild ==
    /\ last_op = "args_build_stammgruppen"
    /\ stammgruppen' = build_stammgruppen(experts)
    /\ last_op' = "build_stammgruppen"
    /\ UNCHANGED <<students, topics, seed, assignment, experts, var_seed, prev_call>>
    /\ engineUnchanged

EngSimpleGroups ==
    /\ last_op = "args_build_simple_groups"
    /\ simple_groups' = build_simple_groups(students, group_count, seed)
    /\ last_op' = "build_simple_groups"
    /\ UNCHANGED <<students, topics, seed, groupVars, var_seed, prev_call,
                   group_count, dur_read, dur_expert, dur_stamm, phase,
                   seconds_left, running, phase_frame, controls, timer_job,
                   after_queue, ref_running, ticks_remaining, ref_ticked>>

NextEngine ==
    \/ EngAssign
    \/ EngAssignRaises
    \/ EngInvert
    \/ EngBuild
    \/ EngSimpleGroups

SpecEngine == InitEngine /\ [][NextEngine]_vars

(* ---------------------------------------------------------------------- *)
(* The application: setup form, PhaseFrame, countdown                      *)
(* ---------------------------------------------------------------------- *)
(* what the operator types into the setup form *)
FormRosters == {SubSeq(NamePool, 1, k) : k \in 0..MaxClass}
FormTopicLists == {<<>>, <<"T1">>, <<"T1", "T2">>}
(* <<reading, expert phase, home-group phase>> in minutes, within the     *)
(* range 1..90 of the three spin boxes                                    *)
FormDurations == {<<1, 2, 1>>}
(* what the spin box of the box "Einfachgruppen" holds when the button is pressed *)
FormGroupCounts == {1, 2, 3}

(* variant: the controls stay usable in every phase *)
RenderControlsAnyPhase(ph, studs, tops) ==
    IF Len(studs) > 0 /\ Len(tops) > 0 THEN "normal" ELSE "disabled"

(* _render: the reassignment controls are usable in phase 1 only *)
RenderControls(ph, studs, tops) ==
    IF ph = 1 /\ Len(studs) > 0 /\ Len(tops) > 0 THEN "normal" ELSE "disabled"

(* every operation of the operator restarts the countdown bookkeeping *)
RefReset ==
    /\ ref_running' = running'
    /\ ticks_remaining' = seconds_left'
    /\ ref_ticked' = FALSE

(* prev_call after an invocation of assign_topics_evenly on (studs, tops,  *)
(* sd) that returned asg                                                   *)
Called(studs, tops, sd, asg) ==
    IF prev_call.n >= 1 /\ <<studs, tops, sd>> = <<students, topics, seed>>
    THEN [n |-> 2, first |-> prev_call.first]
    ELSE [n |-> 1, first |-> asg]

(* variant of the rejection: the cleaned roster and the topics are written  *)
(* to the state before they are validated                                   *)
StartRejectedAfterWrite(error, studs, tops) ==
    /\ last_op' = error
    /\ students' = studs /\ topics' = tops
    /\ prev_call' = Settled(prev_call)
    /\ UNCHANGED <<dur_read, dur_expert, dur_stamm, seed, groupVars,
                   simple_groups, group_count, timerVars, phase_frame, controls, var_seed,
                   jobVars>>

(* SetupFrame._start returning after messagebox.showerror *)
StartRejected(error, studs, tops) ==
    /\ last_op' = error
    /\ prev_call' = Settled(prev_call)
    /\ UNCHANGED <<appVars, group_count, phase_frame, controls, var_seed, jobVars>>

(* variant of the accepted start: self.state.running = False is missing *)
StartAcceptedKeepsRunning(studs, tops, durs, sd) ==
    /\ students' = studs /\ topics' = tops
    /\ dur_read' = durs[1] /\ dur_expert' = durs[2] /\ dur_stamm' = durs[3]
    /\ seed' = sd
    /\ assignment' = assign_topics_evenly(studs, tops, sd)
    /\ experts' = invert_to_experts(assignment')
    /\ stammgruppen' = build_stammgruppen(experts')
    /\ simple_groups' = <<>>
    /\ UNCHANGED group_count
    /\ phase' = 1
    /\ seconds_left' = dur_read' * SecondsPerMinute
    /\ UNCHANGED running
    /\ phase_frame' = "PhaseFrame"
    /\ timer_job' = None /\ after_queue' = 0
    /\ controls' = RenderControls(phase', students', topics')
    /\ var_seed' = sd
    /\ last_op' = "start"
    /\ prev_call' = Called(studs, tops, sd, assignment')

(* SetupFrame._start past its two checks, then JigsawApp._to_phase, which  *)
(* destroys the old PhaseFrame (and with it the callbacks it registered)   *)
(* and builds a new one                                                    *)
StartAccepted(studs, tops, durs, sd) ==
    /\ students' = studs /\ topics' = tops
    /\ dur_read' = durs[1] /\ dur_expert' = durs[2] /\ dur_stamm' = durs[3]
    /\ seed' = sd
    /\ assignment' = assign_topics_evenly(studs, tops, sd)
    /\ experts' = invert_to_experts(assignment')
    /\ stammgruppen' = build_stammgruppen(experts')
    /\ simple_groups' = <<>>
    /\ UNCHANGED group_count
    /\ phase' = 1
    /\ seconds_left' = dur_read' * SecondsPerMinute
    /\ running' = FALSE
    /\ phase_frame' = "PhaseFrame"
    /\ timer_job' = None /\ after_queue' = 0
    /\ controls' = RenderControls(phase', students', topics')
    /\ var_seed' = sd
    /\ last_op' = "start"
    /\ prev_call' = Called(studs, tops, sd, assignment')

(* SetupFrame._start, from the Start button of the setup form or from the  *)
(* menu entry "Start (Setup)", which stays usable while a PhaseFrame is on *)
(* screen; the hidden form then still holds what the session was started   *)
(* with.                                                                    *)
start ==
    \E studs \in FormRosters, tops \in FormTopicLists,
       durs \in FormDurations, sd \in Seeds :
        /\ phase_frame # None =>
              /\ studs = students /\ tops = topics
              /\ durs = <<dur_read, dur_expert, dur_stamm>>
              /\ sd = var_seed
        /\ IF Len(studs) < 2
           THEN StartRejected("start_error_students", studs, tops)
           ELSE IF Len(tops) < 2
           THEN StartRejected("start_error_topics", studs, tops)
           ELSE StartAccepted(studs, tops, durs, sd)
        /\ RefReset

(* SetupFrame._open_simple_groups, from the button of the setup form: the  *)
(* names are read from the form, the seed is drawn with random.randint.     *)
(* Text in the spin box that is not a number ends the handler without a     *)
(* write (the warning box, or the TclError of IntVar.get).                  *)
open_simple_groups ==
    /\ phase_frame = None
    /\ \E studs \in FormRosters, typed \in FormGroupCounts, is_number \in BOOLEAN,
          sd \in Seeds :
          LET count == Max2(2, typed)
          IN IF ~is_number
             THEN /\ last_op' = "open_simple_groups_invalid"
                  /\ UNCHANGED simple_groups
             ELSE IF Len(studs) < count
             THEN /\ last_op' = "open_simple_groups_warning"
                  /\ UNCHANGED simple_groups
             ELSE /\ simple_groups' = build_simple_groups(studs, count, sd)
                  /\ last_op' = "open_simple_groups"
    /\ prev_call' = Settled(prev_call)
    /\ UNCHANGED <<rosterVars, seed, groupVars, group_count, timerVars,
                   phase_frame, controls, var_seed, jobVars>>
    /\ RefReset

(* variant: the countdown stops in the firing that brings seconds_left to 0 *)
tick_body_stops_at_zero(run, left) ==
    IF run
    THEN IF left > 0
         THEN [running |-> left - 1 > 0, seconds_left |-> left - 1,
               scheduled |-> left - 1 > 0, bell |-> left - 1 = 0]
         ELSE [running |-> FALSE, seconds_left |-> left,
               scheduled |-> FALSE, bell |-> TRUE]
    ELSE [running |-> FALSE, seconds_left |-> left,
          scheduled |-> FALSE, bell |-> FALSE]

(* variant: if self.state.seconds_left >= 0 *)
tick_body_decrements_at_zero(run, left) ==
    IF run
    THEN IF left >= 0
         THEN [running |-> TRUE, seconds_left |-> left - 1,
               scheduled |-> TRUE, bell |-> FALSE]
         ELSE [running |-> FALSE, seconds_left |-> left,
               scheduled |-> FALSE, bell |-> TRUE]
    ELSE [running |-> FALSE, seconds_left |-> left,
          scheduled |-> FALSE, bell |-> FALSE]

(* variant: the test of self.state.running is missing *)
tick_body_ignores_pause(run, left) ==
    IF left > 0
    THEN [running |-> run, seconds_left |-> left - 1,
          scheduled |-> TRUE, bell |-> FALSE]
    ELSE [running |-> FALSE, seconds_left |-> left,
          scheduled |-> FALSE, bell |-> run]

(* variant: self.after(1000, self._tick) is missing *)
tick_body_never_reschedules(run, left) ==
    IF run
    THEN IF left > 0
         THEN [running |-> TRUE, seconds_left |-> left - 1,
               scheduled |-> FALSE, bell |-> FALSE]
         ELSE [running |-> FALSE, seconds_left |-> left,
               scheduled |-> FALSE, bell |-> TRUE]
    ELSE [running |-> FALSE, seconds_left |-> left,
          scheduled |-> FALSE, bell |-> FALSE]

(* the body of PhaseFrame._tick: the new running and seconds_left, whether *)
(* it scheduled itself again with after(1000, ...), whether it rang        *)
tick_body(run, left) ==
    IF run
    THEN IF left > 0
         THEN [running |-> TRUE, seconds_left |-> left - 1,
               scheduled |-> TRUE, bell |-> FALSE]
         ELSE [running |-> FALSE, seconds_left |-> left,
               scheduled |-> FALSE, bell |-> TRUE]
    ELSE [running |-> FALSE, seconds_left |-> left,
          scheduled |-> FALSE, bell |-> FALSE]

(* variant: the firing that finds the countdown elapsed enters the next phase *)
tick_advances_at_zero ==
    /\ phase_frame # None
    /\ after_queue > 0
    /\ \E is_job \in BOOLEAN :
          /\ is_job => timer_job = "pending"
          /\ ~is_job => after_queue > (IF timer_job = "pending" THEN 1 ELSE 0)
          /\ LET r == tick_body(running, seconds_left)
             IN /\ running' = r.running
                /\ seconds_left' = r.seconds_left
                /\ IF r.scheduled
                   THEN /\ timer_job' = "pending"
                        /\ after_queue' = after_queue
                   ELSE /\ timer_job' = IF is_job THEN "fired" ELSE timer_job
                        /\ after_queue' = after_queue - 1
                /\ last_op' = IF r.bell THEN "tick_bell" ELSE "tick"
    /\ ticks_remaining' = IF ticks_remaining >= 0 THEN ticks_remaining - 1 ELSE -1
    /\ ref_ticked' = TRUE
    /\ prev_call' = Settled(prev_call)
    /\ phase' = IF running /\ seconds_left = 0 /\ phase < 3 THEN phase + 1 ELSE phase
    /\ UNCHANGED <<rosterVars, seed, groupVars, simple_groups, group_count,
                   phase_frame, controls, var_seed, ref_running>>

(* one callback of the after-queue fires: the one _timer_job names, or one *)
(* scheduled earlier that _timer_job no longer names                       *)
tick ==
    /\ phase_frame # None
    /\ after_queue > 0
    /\ \E is_job \in BOOLEAN :
          /\ is_job => timer_job = "pending"
          /\ ~is_job => after_queue > (IF timer_job = "pending" THEN 1 ELSE 0)
          /\ LET r == tick_body(running, seconds_left)
             IN /\ running' = r.running
                /\ seconds_left' = r.seconds_left
                /\ IF r.scheduled
                   THEN /\ timer_job' = "pending"
                        /\ after_queue' = after_queue
                   ELSE /\ timer_job' = IF is_job THEN "fired" ELSE timer_job
                        /\ after_queue' = after_queue - 1
                /\ last_op' = IF r.bell THEN "tick_bell" ELSE "tick"
    /\ ticks_remaining' = IF ticks_remaining >= 0 THEN ticks_remaining - 1 ELSE -1
    /\ ref_ticked' = TRUE
    /\ prev_call' = Settled(prev_call)
    /\ UNCHANGED <<rosterVars, seed, groupVars, simple_groups, group_count, phase,
                   phase_frame, controls, var_seed, ref_running>>

(* PhaseFrame._toggle: flips running and, when now running, calls _tick *)
toggle ==
    /\ phase_frame # None
    /\ LET r == tick_body(~running, seconds_left)
       IN /\ r.scheduled => after_queue < MaxPending
          /\ running' = r.running
          /\ seconds_left' = r.seconds_left
          /\ IF r.scheduled
             THEN timer_job' = "pending" /\ after_queue' = after_queue + 1
             ELSE UNCHANGED jobVars
          /\ last_op' = IF r.bell THEN "toggle_bell" ELSE "toggle"
    /\ prev_call' = Settled(prev_call)
    /\ UNCHANGED <<rosterVars, seed, groupVars, simple_groups, group_count, phase,
                   phase_frame, controls, var_seed>>
    /\ RefReset

(* variant: the countdown is set to one minute *)
ExtendedToOneMinute(left) == SecondsPerMinute

(* self.app.state.seconds_left += 60 *)
Extended(left) == left + SecondsPerMinute

(* PhaseFrame._plus_minute *)
plus_minute ==
    /\ phase_frame # None
    /\ Extended(seconds_left) <= MaxSeconds
    /\ seconds_left' = Extended(seconds_left)
    /\ last_op' = "plus_minute"
    /\ prev_call' = Settled(prev_call)
    /\ UNCHANGED <<rosterVars, seed, groupVars, simple_groups, group_count, phase, running,
                   phase_frame, controls, var_seed, jobVars>>
    /\ RefReset

(* after_cancel(self._timer_job); self._timer_job = None *)
CancelledQueue ==
    IF timer_job = "pending" THEN after_queue - 1 ELSE after_queue

(* variant: every phase gets the reading time *)
PhaseSecondsReadingTime(ph) == dur_read * SecondsPerMinute

(* PhaseFrame._next: the countdown the phase just entered starts from *)
PhaseSeconds(ph) ==
    IF ph = 2 THEN dur_expert * SecondsPerMinute
    ELSE IF ph = 3 THEN dur_stamm * SecondsPerMinute
    ELSE seconds_left

(* variant: the last phase is entered once more, its countdown reset *)
AbschlussResetsCountdown ==
    /\ running' = FALSE
    /\ seconds_left' = dur_stamm * SecondsPerMinute
    /\ last_op' = "next_abschluss"
    /\ UNCHANGED <<phase, experts, stammgruppen, controls>>

(* PhaseFrame._next in phase 3: the countdown is stopped and the box       *)
(* "Abschluss" is shown                                                     *)
Abschluss ==
    /\ running' = FALSE
    /\ last_op' = "next_abschluss"
    /\ UNCHANGED <<phase, seconds_left, experts, stammgruppen, controls>>

(* PhaseFrame._next *)
next_phase ==
    /\ phase_frame # None
    /\ after_queue' = CancelledQueue
    /\ timer_job' = None
    /\ IF phase < 3
       THEN /\ phase' = phase + 1
            /\ running' = FALSE
            /\ seconds_left' = PhaseSeconds(phase')
            /\ experts' = invert_to_experts(assignment)
            /\ stammgruppen' = build_stammgruppen(experts')
            /\ controls' = RenderControls(phase', students, topics)
            /\ last_op' = "next"
       ELSE Abschluss
    /\ prev_call' = Settled(prev_call)
    /\ UNCHANGED <<rosterVars, seed, assignment, simple_groups, group_count, phase_frame,
                   var_seed>>
    /\ RefReset

(* variant: the setup form is rebuilt on the AppState of the old session *)
restart_keeps_state ==
    /\ phase_frame # None
    /\ running' = FALSE
    /\ phase_frame' = None
    /\ controls' = "disabled"
    /\ timer_job' = None /\ after_queue' = 0
    /\ last_op' = "restart"
    /\ prev_call' = NoCall
    /\ UNCHANGED <<rosterVars, seed, groupVars, simple_groups, group_count, phase,
                   seconds_left, var_seed>>
    /\ RefReset

(* PhaseFrame._restart, confirmed, and JigsawApp._restart: the pending job  *)
(* is cancelled, state_data becomes a fresh AppState (its seed drawn with   *)
(* random.randint), the PhaseFrame is destroyed and a new setup form is     *)
(* built on the new state.                                                  *)
restart ==
    /\ phase_frame # None
    /\ students' = <<>> /\ topics' = <<>>
    /\ dur_read' = DEFAULT_DUR_READ
    /\ dur_expert' = DEFAULT_DUR_EXPERT
    /\ dur_stamm' = DEFAULT_DUR_STAMM
    /\ seed' \in Seeds
    /\ assignment' = <<>> /\ experts' = <<>> /\ stammgruppen' = <<>>
    /\ simple_groups' = <<>>
    /\ UNCHANGED group_count
    /\ phase' = 1 /\ seconds_left' = 0 /\ running' = FALSE
    /\ phase_frame' = None
    /\ controls' = "disabled"
    /\ var_seed' = seed'
    /\ timer_job' = None /\ after_queue' = 0
    /\ last_op' = "restart"
    /\ prev_call' = NoCall
    /\ RefReset

(* variant: the comboboxes are editable, so a text that is in no list can  *)
(* be typed into them                                                       *)
ComboChoicesEditable(values) ==
    IF controls = "normal" THEN Range(values) \cup {"", "Eli"} ELSE {""}

(* what a read-only combobox can hold: one of its values or "" (nothing     *)
(* selected); _render empties both comboboxes when it disables the controls *)
ComboChoices(values) ==
    IF controls = "normal" THEN Range(values) \cup {""} ELSE {""}

(* variant: only the learner's combobox is tested *)
NothingSelectedLearner(s, t) == s = ""

(* if not s or not t *)
NothingSelected(s, t) == s = "" \/ t = ""

(* variant: the topic is given to every learner *)
ReassignedAll(asg, s, t) == [i \in 1..Len(asg) |-> <<asg[i][1], t>>]

(* variant: del self.state.assignment[s] first, so the key moves to the end *)
ReassignedAtEnd(asg, s, t) ==
    Append(SelectSeq(asg, LAMBDA e : e[1] # s), <<s, t>>)

(* self.state.assignment[s] = t *)
Reassigned(asg, s, t) == DictSet(asg, s, t)

(* variant: a reassignment pauses the countdown *)
ApplyChangePauses(s, t) ==
    /\ IF NothingSelected(s, t)
       THEN /\ last_op' = "apply_change_warning"
            /\ UNCHANGED <<groupVars, controls, running>>
       ELSE /\ assignment' = Reassigned(assignment, s, t)
            /\ experts' = invert_to_experts(assignment')
            /\ stammgruppen' = build_stammgruppen(experts')
            /\ controls' = RenderControls(phase, students, topics)
            /\ running' = FALSE
            /\ last_op' = "apply_change"
    /\ prev_call' = Settled(prev_call)
    /\ UNCHANGED <<rosterVars, seed, simple_groups, group_count, phase,
                   seconds_left, phase_frame, var_seed, jobVars>>
    /\ RefReset

(* variant: the derived groups are left for _next to rebuild *)
ApplyChangeWithoutRebuild(s, t) ==
    /\ IF NothingSelected(s, t)
       THEN /\ last_op' = "apply_change_warning"
            /\ UNCHANGED <<groupVars, controls>>
       ELSE /\ assignment' = Reassigned(assignment, s, t)
            /\ UNCHANGED <<experts, stammgruppen>>
            /\ controls' = RenderControls(phase, students, topics)
            /\ last_op' = "apply_change"
    /\ prev_call' = Settled(prev_call)
    /\ UNCHANGED <<rosterVars, seed, simple_groups, group_count, timerVars, phase_frame,
                   var_seed, jobVars>>
    /\ RefReset

(* PhaseFrame._apply_change with learner s and topic t in the comboboxes *)
ApplyChange(s, t) ==
    /\ IF NothingSelected(s, t)
       THEN /\ last_op' = "apply_change_warning"
            /\ UNCHANGED <<groupVars, controls>>
       ELSE /\ assignment' = Reassigned(assignment, s, t)
            /\ experts' = invert_to_experts(assignment')
            /\ stammgruppen' = build_stammgruppen(experts')
            /\ controls' = RenderControls(phase, students, topics)
            /\ last_op' = "apply_change"
    /\ prev_call' = Settled(prev_call)
    /\ UNCHANGED <<rosterVars, seed, simple_groups, group_count, timerVars, phase_frame,
                   var_seed, jobVars>>
    /\ RefReset

(* the "Anwenden" button *)
apply_change ==
    /\ phase_frame # None
    /\ \E s \in ComboChoices(students), t \in ComboChoices(topics) :
          ApplyChange(s, t)

(* variant: only the empty lists are refused *)
ReshuffleRefusedWhenEmpty == Len(students) = 0 \/ Len(topics) = 0

(* the two tests of _reshuffle that end in a warning *)
ReshuffleRefused == phase # 1 \/ Len(students) = 0 \/ Len(topics) = 0

(* variant: the assignment in the state is kept *)
RecomputedKeepsEdits(sd) == assignment

(* assign_topics_evenly(self.state.students, self.state.topics, seed=...) *)
Recomputed(sd) == assign_topics_evenly(students, topics, sd)

(* PhaseFrame._reshuffle (the new seed drawn with random.randint) *)
reshuffle ==
    /\ phase_frame # None
    /\ IF ReshuffleRefused
       THEN /\ last_op' = "reshuffle_warning"
            /\ prev_call' = Settled(prev_call)
            /\ UNCHANGED <<seed, groupVars, controls>>
       ELSE /\ seed' \in Seeds
            /\ assignment' = Recomputed(seed')
            /\ experts' = invert_to_experts(assignment')
            /\ stammgruppen' = build_stammgruppen(experts')
            /\ controls' = RenderControls(phase, students, topics)
            /\ last_op' = "reshuffle"
            /\ prev_call' = Called(students, topics, seed', assignment')
    /\ UNCHANGED <<rosterVars, simple_groups, group_count, timerVars, phase_frame,
                   var_seed, jobVars>>
    /\ RefReset

Next ==
    \/ start
    \/ tick
    \/ toggle
    \/ plus_minute
    \/ next_phase
    \/ restart
    \/ apply_change
    \/ reshuffle
    \/ open_simple_groups

Spec == Init /\ [][Next]_vars

(* The Tk event loop runs every callback of the after-queue once its delay  *)
(* of 1000 ms has passed: a pending _tick fires.                            *)
SpecCountdown == Init /\ [][Next]_vars /\ WF_vars(tick)

(* ---------------------------------------------------------------------- *)
(* Properties of the grouping engine (checked under SpecEngine)            *)
(* ---------------------------------------------------------------------- *)
BucketSize(asg, t) == Cardinality({i \in 1..Len(asg) : asg[i][2] = t})

Evenly(asg, tops) ==
    \A t1, t2 \in Range(tops) : BucketSize(asg, t1) - BucketSize(asg, t2) <= 1

(* C1: for a roster of at least one unique name, a topic list of at least  *)
(* one (unique) topic and any seed, assign_topics_evenly returns a mapping  *)
(* with one entry per learner of the roster and no other key, every value   *)
(* a topic of the list, and the bucket sizes over all topics of the list    *)
(* (empty buckets included) differ by at most 1.                            *)
C1_AssignCoversEvenly ==
    (/\ last_op = "assign_topics_evenly"
     /\ Len(students) >= 1 /\ Len(topics) >= 1 /\ IsUnique(topics))
    => /\ DictKeys(assignment) = Range(students)
       /\ Len(assignment) = Len(students)
       /\ \A i \in 1..Len(assignment) : assignment[i][2] \in Range(topics)
       /\ Evenly(assignment, topics)

C1_Witness ==
    /\ last_op = "assign_topics_evenly"
    /\ Len(students) >= 3 /\ Len(topics) >= 2 /\ IsUnique(topics)
    /\ Len(students) % Len(topics) # 0
    /\ \E t1, t2 \in Range(topics) :
          BucketSize(assignment, t1) = BucketSize(assignment, t2) + 1

RECURSIVE SumLen(_, _)
SumLen(d, k) == IF k > Len(d) THEN 0 ELSE Len(d[k][2]) + SumLen(d, k + 1)

C3_ExpertsInverse ==
    last_op = "invert_to_experts"
    => /\ \A l \in Names, t \in TopicNames :
              (\E k \in 1..Len(experts) :
                    experts[k][1] = t /\ l \in Range(experts[k][2]))
              <=> (\E i \in 1..Len(assignment) : assignment[i] = <<l, t>>)
       /\ \A k1, k2 \in 1..Len(experts) :
              experts[k1][1] = experts[k2][1] => k1 = k2
       /\ SumLen(experts, 1) = Len(assignment)

C3_Witness ==
    /\ last_op = "invert_to_experts"
    /\ Len(assignment) = MaxStudents
    /\ \E k \in 1..Len(experts) : Len(experts[k][2]) >= 2
    /\ Len(experts) >= 2

(* C4: for every assignment, even or not, no home group built from its      *)
(* expert groups holds two learners of the same topic.                      *)
C4_NoTopicTwiceInHomeGroup ==
    last_op = "invert_to_experts"
    => \A g \in 1..Len(stammgruppen) :
          \A i, j \in 1..Len(stammgruppen[g]) :
              stammgruppen[g][i][2] = stammgruppen[g][j][2] => i = j

(* an uneven assignment: one bucket of one learner, one of all the others *)
C4_Witness ==
    /\ last_op = "invert_to_experts"
    /\ Len(experts) = 2
    /\ \E k \in 1..2 : Len(experts[k][2]) = 1
    /\ \E k \in 1..2 : Len(experts[k][2]) = MaxStudents - 1
    /\ Len(stammgruppen) = MaxStudents - 1 /\ MaxStudents >= 3

(* C5: build_stammgruppen returns as many groups as the largest bucket has  *)
(* members (none for an empty dict or only empty buckets), and every        *)
(* (learner, topic) pair of every bucket stands in exactly one home group,  *)
(* which hold nothing else.                                                 *)
LargestBucket(e) ==
    LET sizes == {Len(e[k][2]) : k \in 1..Len(e)} \cup {0}
    IN CHOOSE m \in sizes : \A x \in sizes : x <= m

Occurrences(groups, pair) ==
    Cardinality({<<g, i>> \in (1..Len(groups)) \X (1..(MaxStudents + 1)) :
                    i <= Len(groups[g]) /\ groups[g][i] = pair})

RECURSIVE TotalEntries(_, _)
TotalEntries(groups, g) ==
    IF g > Len(groups) THEN 0 ELSE Len(groups[g]) + TotalEntries(groups, g + 1)

C5_HomeGroupsCountAndCover ==
    last_op = "build_stammgruppen"
    => /\ Len(stammgruppen) = LargestBucket(experts)
       /\ \A k \in 1..Len(experts) : \A m \in 1..Len(experts[k][2]) :
              Occurrences(stammgruppen, <<experts[k][2][m], experts[k][1]>>) = 1
       /\ TotalEntries(stammgruppen, 1) = SumLen(experts, 1)

C5_Witness ==
    /\ last_op = "build_stammgruppen"
    /\ Len(experts) >= 2
    /\ \E k \in 1..Len(experts) : Len(experts[k][2]) = 0
    /\ LargestBucket(experts) >= 2
    /\ Len(stammgruppen) = LargestBucket(experts)

(* ---------------------------------------------------------------------- *)
(* Properties of the application (checked under Spec)                      *)
(* ---------------------------------------------------------------------- *)
(* C6: right after an accepted session start the session is in phase 1,    *)
(* not running, with seconds_left = dur_read * 60, and the assignment, the *)
(* expert groups and the home groups are the ones computed from the stored *)
(* roster, topics and seed.                                                *)
C6_StateAfterStart ==
    last_op = "start" =>
        /\ phase = 1 /\ ~running
        /\ seconds_left = dur_read * SecondsPerMinute
        /\ assignment = assign_topics_evenly(students, topics, seed)
        /\ experts = invert_to_experts(assignment)
        /\ stammgruppen = build_stammgruppen(experts)

C6_Witness ==
    /\ last_op = "start"
    /\ phase = 1 /\ ~running /\ seconds_left = SecondsPerMinute
    /\ Len(students) >= 2 /\ Len(assignment) = Len(students)
    /\ Len(experts) = Len(topics) /\ Len(stammgruppen) >= 1

(* C7: a start with fewer than 2 learners or fewer than 2 topics changes   *)
(* none of roster, topics, durations, seed, assignment, derived groups,    *)
(* phase, seconds_left and running and opens no PhaseFrame; a start that   *)
(* is accepted has at least 2 learners and at least 2 topics.              *)
C7_RejectedStartChangesNothing ==
    [][/\ last_op' \in {"start_error_students", "start_error_topics"} =>
            UNCHANGED <<students, topics, dur_read, dur_expert, dur_stamm, seed,
                        assignment, experts, stammgruppen, phase, seconds_left,
                        running, phase_frame>>
       /\ last_op' = "start" => Len(students') >= 2 /\ Len(topics') >= 2]_vars

(* two learners but a single topic typed into a fresh form *)
C7_Witness ==
    /\ last_op = "start_error_topics"
    /\ phase_frame = None
    /\ students = <<>> /\ topics = <<>> /\ assignment = <<>>
    /\ dur_read = DEFAULT_DUR_READ /\ seconds_left = 0

(* C8 as stated: from running = true and seconds_left = N, exactly N       *)
(* firings of the tick, with no other operation in between, leave           *)
(* seconds_left = 0 and running = false.                                    *)
C8_NFiringsStopCountdown ==
    ref_running /\ ticks_remaining = 0 => seconds_left = 0 /\ ~running

(* C8 amended: from running = true and seconds_left = N, exactly N firings *)
(* of the tick, with no other operation in between, leave seconds_left = 0 *)
(* with running still true; the firing after them, which finds             *)
(* seconds_left = 0, sets running = false and decrements nothing.          *)
C8_NFiringsReachZero ==
    /\ ref_running /\ ticks_remaining = 0 => seconds_left = 0 /\ running
    /\ ref_running /\ ticks_remaining = -1 => seconds_left = 0 /\ ~running

(* the N-th firing (N >= 1) has just brought the countdown to zero *)
C8_Witness ==
    /\ ref_running /\ ref_ticked /\ ticks_remaining = 0
    /\ last_op = "tick"
    /\ seconds_left = 0 /\ running

(* C9: seconds_left >= 0 in every reachable state, whatever the            *)
(* interleaving of callbacks and operations.                                *)
C9_SecondsLeftNonNegative ==
    seconds_left >= 0

(* a callback has fired on seconds_left = 0 while running *)
C9_Witness ==
    /\ last_op = "tick_bell"
    /\ seconds_left = 0 /\ ~running

(* C10: the toggle leaves seconds_left as it was, when pausing and when    *)
(* starting or resuming.                                                    *)
C10_ToggleKeepsSecondsLeft ==
    [][last_op' \in {"toggle", "toggle_bell"} => seconds_left' = seconds_left]_vars

(* C11: at most one _tick callback is pending in every reachable state,    *)
(* also when the operator pauses and resumes before the callback scheduled *)
(* earlier has fired.                                                      *)
C11_AtMostOneCallbackPending ==
    after_queue <= 1

(* C12: _next in phase 1 or 2 increments the phase by exactly 1, sets      *)
(* running = false and sets seconds_left to the duration of the phase      *)
(* entered times 60 (dur_expert for phase 2, dur_stamm for phase 3),        *)
(* whatever seconds_left and running were.                                  *)
C12_AdvanceEntersNextPhase ==
    [][last_op' = "next" =>
          /\ phase \in {1, 2} /\ phase' = phase + 1
          /\ ~running'
          /\ phase' = 2 => seconds_left' = dur_expert * SecondsPerMinute
          /\ phase' = 3 => seconds_left' = dur_stamm * SecondsPerMinute]_vars

(* phase 2 entered while a callback of the phase 1 countdown is still      *)
(* waiting: the countdown had been started and paused before                *)
C12_Witness ==
    /\ last_op = "next"
    /\ phase = 2 /\ ~running
    /\ dur_expert # dur_read
    /\ seconds_left = dur_expert * SecondsPerMinute
    /\ after_queue >= 1

C14_NoCallbackAfterTransition ==
    last_op \in {"next", "next_abschluss", "restart"} => after_queue = 0

(* C15: "+1 Min" adds exactly 60 to seconds_left in every phase and for every
   running state, an elapsed countdown included, and leaves running, phase,
   the assignment and the derived groups unchanged. *)
C15_ExtendAddsMinute ==
    [][last_op' = "plus_minute" =>
          /\ seconds_left' = seconds_left + 60
          /\ UNCHANGED <<running, phase, assignment, experts, stammgruppen>>]_vars

(* an extension of a countdown that still had a second left, while running *)
C15_Witness ==
    /\ last_op = "plus_minute"
    /\ seconds_left = 61
    /\ running
    /\ phase = 3

(* C16: in phase 2 and phase 3 no reassign request changes the assignment,
   the expert groups or the home groups. *)
C16_NoReassignOutsidePhase1 ==
    [][(last_op' \in {"apply_change", "apply_change_warning"} /\ phase \in {2, 3})
          => UNCHANGED <<assignment, experts, stammgruppen>>]_vars

(* a reassign request made in phase 2 on a computed assignment *)
C16_Witness ==
    /\ last_op = "apply_change_warning"
    /\ phase = 2
    /\ Len(assignment) >= 2
    /\ controls = "disabled"

(* C17: a reassign request whose topic is not in the topic list, or whose
   learner is not in the roster, changes neither the assignment nor the
   expert groups nor the home groups. *)
C17_UnlistedReassignRejected ==
    [][last_op' \in {"apply_change", "apply_change_warning"} =>
          \/ UNCHANGED <<assignment, experts, stammgruppen>>
          \/ \A s \in Names \cup {""}, t \in TopicNames \cup {""} :
                (s \notin Range(students) \/ t \notin Range(topics))
                   => ~ApplyChange(s, t)]_vars

(* a request in phase 1 with a learner selected and no topic *)
C17_Witness ==
    /\ last_op = "apply_change_warning"
    /\ phase = 1
    /\ controls = "normal"
    /\ Len(assignment) >= 2

(* C18: a successful reassign of learner s to topic t in phase 1 sets the
   learner's topic to t, leaves the topic of every other learner unchanged
   and leaves the key set of the assignment unchanged. *)
C18_ReassignSetsOneTopic ==
    [][(last_op' = "apply_change" /\ phase = 1) =>
          \A s \in Names, t \in TopicNames :
             ApplyChange(s, t)
                => /\ DictGet(assignment', s) = t
                   /\ \A o \in DictKeys(assignment) \ {s} :
                          DictGet(assignment', o) = DictGet(assignment, o)
                   /\ DictKeys(assignment') = DictKeys(assignment)
                   /\ Len(assignment') = Len(assignment)]_vars

(* a reassignment that put both learners on the same topic of a list of two *)
C18_Witness ==
    /\ last_op = "apply_change"
    /\ phase = 1
    /\ Len(assignment) = 2
    /\ Len(topics) = 2
    /\ assignment[1][2] = assignment[2][2]

(* C19: a reshuffle requested in phase 2 or phase 3 leaves the seed, the
   assignment, the expert groups and the home groups unchanged. *)
C19_NoReshuffleOutsidePhase1 ==
    [][(last_op' \in {"reshuffle", "reshuffle_warning"} /\ phase \in {2, 3})
          => UNCHANGED <<seed, assignment, experts, stammgruppen>>]_vars

(* a reshuffle refused in phase 3 *)
C19_Witness ==
    /\ last_op = "reshuffle_warning"
    /\ phase = 3
    /\ Len(assignment) >= 2

(* C20: after a reshuffle in phase 1 the assignment is what
   assign_topics_evenly returns for the roster, the topics and the seed now
   in the state: one entry per learner, bucket sizes at most 1 apart, no
   manual reassignment left. *)
C20_ReshuffleRecomputes ==
    last_op = "reshuffle" =>
       /\ phase = 1
       /\ assignment = assign_topics_evenly(students, topics, seed)
       /\ DictKeys(assignment) = Range(students)
       /\ Len(assignment) = Len(students)
       /\ Evenly(assignment, topics)

(* a reshuffle that drew a seed other than the one of the setup form *)
C20_Witness ==
    /\ last_op = "reshuffle"
    /\ seed # var_seed
    /\ Len(students) = 2
    /\ Len(topics) = 2
    /\ assignment[1][2] # assignment[2][2]

(* C21: the countdown reaching zero never advances the phase: the phase
   changes only in an explicit advance, a restart or a session start, and
   no firing of the tick callback changes it. *)
C21_OnlyOperatorChangesPhase ==
    [][/\ phase' # phase => last_op' \in {"next", "restart", "start"}
       /\ last_op' \in {"tick", "tick_bell"} => phase' = phase]_vars

(* the firing that found the countdown of phase 2 elapsed *)
C21_Witness ==
    /\ last_op = "tick_bell"
    /\ phase = 2
    /\ seconds_left = 0
    /\ ~running

(* C22: restart can be taken in every phase and every running state of a
   session, and after it the state is a fresh one: no roster, no topics, no
   assignment, no expert or home groups, phase 1, not running, no time on the
   countdown, the default durations and no timer callback left. *)
C22_RestartGivesFreshState ==
    /\ phase_frame # None => ENABLED restart
    /\ last_op = "restart" =>
          /\ students = <<>> /\ topics = <<>>
          /\ assignment = <<>> /\ experts = <<>> /\ stammgruppen = <<>>
          /\ simple_groups = <<>>
          /\ phase = 1 /\ ~running /\ seconds_left = 0
          /\ <<dur_read, dur_expert, dur_stamm>> =
                <<DEFAULT_DUR_READ, DEFAULT_DUR_EXPERT, DEFAULT_DUR_STAMM>>
          /\ timer_job = None /\ after_queue = 0
          /\ phase_frame = None

(* the state a restart left behind *)
C22_Witness ==
    /\ last_op = "restart"
    /\ phase_frame = None
    /\ assignment = <<>>
    /\ dur_read = DEFAULT_DUR_READ

(* C23: in every state of a started session the assignment has exactly one
   entry per learner of the roster and no other key, and every value is a
   topic of the topic list. *)
C23_AssignmentOverRosterAndTopics ==
    phase_frame # None =>
       /\ DictKeys(assignment) = Range(students)
       /\ Len(assignment) = Len(students)
       /\ \A i \in 1..Len(assignment) : assignment[i][2] \in Range(topics)

(* phase 3 of a session in which a manual reassignment put both learners on
   one topic *)
C23_Witness ==
    /\ phase_frame # None
    /\ phase = 3
    /\ Len(assignment) = 2
    /\ assignment[1][2] = assignment[2][2]
    /\ last_op = "tick"

(* C24: the derived groupings are never stale: in every state of a started
   session the expert groups are invert_to_experts of the assignment and the
   home groups are build_stammgruppen of the expert groups. *)
C24_DerivedGroupsNeverStale ==
    phase_frame # None =>
       /\ experts = invert_to_experts(assignment)
       /\ stammgruppen = build_stammgruppen(experts)

(* a manual reassignment that emptied one expert group: one topic left with
   two experts, hence two home groups of one *)
C24_Witness ==
    /\ last_op = "apply_change"
    /\ Len(assignment) = 2
    /\ Len(experts) = 1
    /\ Len(stammgruppen) = 2

(* C25: for a non-empty roster and a group count larger than the roster,
   build_simple_groups returns normally with exactly one group per learner,
   each group holding one learner, all learners placed. *)
C25_SimpleGroupsClamp ==
    (/\ last_op = "build_simple_groups"
     /\ Len(students) >= 1 /\ group_count > Len(students))
    => /\ Len(simple_groups) = Len(students)
       /\ \A g \in 1..Len(simple_groups) : Len(simple_groups[g]) = 1
       /\ {simple_groups[g][1] : g \in 1..Len(simple_groups)} = Range(students)

(* build_simple_groups(<<three names>>, 5) *)
C25_Witness ==
    /\ last_op = "build_simple_groups"
    /\ Len(students) = 3 /\ group_count = 5
    /\ Len(simple_groups) = 3

(* C26: build_simple_groups fails (ConfigurationError) when the group count
   is below 1 or the roster is empty: such a call does not return a value. *)
C26_InvalidSimpleGroupsFail ==
    (group_count < 1 \/ Len(students) = 0) => last_op # "build_simple_groups"

(* C27: assign_topics_evenly with an empty topic list fails
   (ConfigurationError) for every roster, empty or not: such a call does not
   return an assignment. *)
C27_EmptyTopicsFail ==
    Len(topics) = 0 => last_op # "assign_topics_evenly"

(* C28 as stated: when the roster length n is not a multiple of the number
   T of (unique) topics, the last n mod T topics of the list receive
   n div T + 1 learners and the earlier ones n div T. *)
C28_LaterTopicsGetExtra ==
    (/\ last_op = "assign_topics_evenly"
     /\ Len(topics) >= 1 /\ IsUnique(topics)
     /\ Len(students) % Len(topics) # 0)
    => \A k \in 1..Len(topics) :
          BucketSize(assignment, topics[k]) =
             (Len(students) \div Len(topics))
             + (IF k > Len(topics) - (Len(students) % Len(topics)) THEN 1 ELSE 0)

(* C28 amended: when the roster length n is not a multiple of the number T
   of (unique) topics, the first n mod T topics of the list receive
   n div T + 1 learners and the later ones n div T. *)
C28_EarlierTopicsGetExtra ==
    (/\ last_op = "assign_topics_evenly"
     /\ Len(topics) >= 1 /\ IsUnique(topics)
     /\ Len(students) % Len(topics) # 0)
    => \A k \in 1..Len(topics) :
          BucketSize(assignment, topics[k]) =
             (Len(students) \div Len(topics))
             + (IF k <= Len(students) % Len(topics) THEN 1 ELSE 0)

(* four learners over three topics: 2, 1, 1 *)
C28_Witness ==
    /\ last_op = "assign_topics_evenly"
    /\ Len(students) = 4 /\ Len(topics) = 3 /\ IsUnique(topics)
    /\ BucketSize(assignment, topics[1]) = 2
    /\ BucketSize(assignment, topics[3]) = 1

(* C29: when the toggle has completed, running is the negation of its value
   before, in every phase and for every seconds_left, 0 included. *)
C29_ToggleFlipsRunning ==
    [][last_op' \in {"toggle", "toggle_bell"} => running' = ~running]_vars

(* C30: a tick callback that fires while the countdown is paused changes
   none of seconds_left, running and phase and does not schedule itself
   again, so no firing lowers seconds_left while running is false. *)
C30_PausedTickDoesNothing ==
    [][(last_op' \in {"tick", "tick_bell"} /\ ~running) =>
          /\ UNCHANGED <<seconds_left, running, phase>>
          /\ after_queue' = after_queue - 1]_vars

(* the callback left over from before the pause has fired: the countdown is
   where the pause left it and nothing is pending *)
C30_Witness ==
    /\ last_op = "tick"
    /\ ~running
    /\ seconds_left > 0
    /\ after_queue = 0
    /\ ref_ticked /\ ticks_remaining = seconds_left - 1

(* C31: within a session the phase is in {1, 2, 3} and never decreases: it
   changes only from 1 to 2 and from 2 to 3, in an advance, and only a
   restart brings it back to 1 (the menu entry "Start (Setup)" used while a
   session is active does not). *)
C31_PhaseOnlyAdvances ==
    [][/\ phase' \in {1, 2, 3}
       /\ (phase_frame # None /\ phase' # phase) =>
             \/ phase' = phase + 1 /\ last_op' = "next"
             \/ phase' = 1 /\ last_op' = "restart"]_vars

(* C32: the tick callback, the toggle and "+1 Min" never change the
   assignment, the expert groups, the home groups or the seed; a reassignment
   and a reshuffle never change phase, seconds_left or running. *)
C32_TimerAndAssignmentIndependent ==
    [][/\ last_op' \in {"tick", "tick_bell", "toggle", "toggle_bell", "plus_minute"}
            => UNCHANGED <<assignment, experts, stammgruppen, seed>>
       /\ last_op' \in {"apply_change", "apply_change_warning",
                        "reshuffle", "reshuffle_warning"}
            => UNCHANGED <<phase, seconds_left, running>>]_vars

(* a reassignment made while the countdown of phase 1 is running *)
C32_Witness ==
    /\ last_op = "apply_change"
    /\ phase = 1
    /\ running
    /\ seconds_left > 0
    /\ timer_job = "pending"

(* the countdown has elapsed and has come to rest *)
Elapsed == seconds_left = 0 /\ ~running /\ after_queue = 0

(* the operations of the operator that write the countdown *)
TimerOperations ==
    {"toggle", "toggle_bell", "plus_minute", "next", "next_abschluss",
     "restart", "start"}

(* C33: if from some point on the operator performs no operation on the
   countdown and pending tick callbacks fire, then a countdown that was left
   running reaches seconds_left = 0 with running = false and no tick callback
   pending, and stays there; in that state no callback can fire any more. *)
C33_CountdownElapses ==
    /\ [](Elapsed => ~ENABLED tick)
    /\ \/ []<><<last_op' \in TimerOperations>>_vars
       \/ <>[](ref_running => Elapsed)

(* the countdown, left running by the operator, has rung and come to rest *)
C33_Witness ==
    /\ last_op = "tick_bell"
    /\ Elapsed
    /\ ref_running /\ ref_ticked
    /\ phase = 2

(* C34: in phase 1, after a reassignment of learner l, reassigning l to the
   topic l had before gives back the assignment, the expert groups and the
   home groups as they were before the first reassignment; this includes the
   reassignment of l to the topic l already has. *)
C34_ReassignRoundTrip ==
    [][(last_op' = "apply_change" /\ phase = 1) =>
          \A l \in Range(students), t2 \in Range(topics) :
             assignment' = Reassigned(assignment, l, t2) =>
                \A back \in {Reassigned(assignment', l, DictGet(assignment, l))} :
                   /\ back = assignment
                   /\ \A exp \in {invert_to_experts(back)} :
                         /\ exp = experts
                         /\ build_stammgruppen(exp) = stammgruppen]_vars

(* a reassignment after which the assignment is again the one the session
   was started with *)
C34_Witness ==
    /\ last_op = "apply_change"
    /\ phase = 1
    /\ prev_call.n = 1
    /\ assignment = prev_call.first
    /\ experts = invert_to_experts(prev_call.first)
    /\ Len(experts) = 2

(* C35: for a non-empty dict of expert groups, home group i (counted from 0)
   returned by build_stammgruppen holds exactly one member of every topic
   whose bucket has more than i members, each taken from that bucket, and
   nothing else; a group exists for every i below the size of the largest
   bucket; so home group 0 holds one representative of every topic that has
   members, and no home group is larger than the one before it. *)
TopicsOfGroup(group) == {group[i][2] : i \in 1..Len(group)}

MembersOfTopic(group, topic) == {i \in 1..Len(group) : group[i][2] = topic}

C35_HomeGroupByBucketSize ==
    (last_op = "build_stammgruppen" /\ Len(experts) >= 1)
    => /\ \A k \in 1..Len(experts) : Len(experts[k][2]) <= Len(stammgruppen)
       /\ \A g \in 1..Len(stammgruppen) :
             /\ \A k \in 1..Len(experts) :
                   /\ Cardinality(MembersOfTopic(stammgruppen[g], experts[k][1]))
                         = IF Len(experts[k][2]) > g - 1 THEN 1 ELSE 0
                   /\ \A i \in MembersOfTopic(stammgruppen[g], experts[k][1]) :
                         stammgruppen[g][i][1] \in Range(experts[k][2])
             /\ TopicsOfGroup(stammgruppen[g]) \subseteq DictKeys(experts)
             /\ g = 1 => TopicsOfGroup(stammgruppen[g])
                            = {experts[k][1] : k \in {j \in 1..Len(experts) :
                                                        Len(experts[j][2]) >= 1}}
             /\ g > 1 => Len(stammgruppen[g]) <= Len(stammgruppen[g - 1])

(* buckets of three, one and no members: three home groups, the first with
   two members, the last with one *)
C35_Witness ==
    /\ last_op = "build_stammgruppen"
    /\ Len(experts) = 3
    /\ {Len(experts[k][2]) : k \in 1..3} = {0, 1, 3}
    /\ Len(stammgruppen) = 3
    /\ Len(stammgruppen[1]) = 2
    /\ Len(stammgruppen[3]) = 1

(* C36: for a non-empty roster of unique names and a group count of at least
   1, build_simple_groups returns min(group_count, len(students)) groups;
   every learner stands in exactly one group and the groups hold nothing
   else; no group is empty; the sizes of two groups differ by at most 1. *)
C36_SimpleGroupsPartition ==
    (/\ last_op = "build_simple_groups"
     /\ Len(students) >= 1 /\ IsUnique(students) /\ group_count >= 1)
    => /\ Len(simple_groups) = Min2(group_count, Len(students))
       /\ \A n \in Range(students) : Occurrences(simple_groups, n) = 1
       /\ TotalEntries(simple_groups, 1) = Len(students)
       /\ \A g \in 1..Len(simple_groups) : Len(simple_groups[g]) >= 1
       /\ \A g, h \in 1..Len(simple_groups) :
             Len(simple_groups[g]) - Len(simple_groups[h]) <= 1

(* four learners dealt into three groups: sizes 2, 1, 1 *)
C36_Witness ==
    /\ last_op = "build_simple_groups"
    /\ Len(students) = 4 /\ group_count = 3
    /\ Len(simple_groups) = 3
    /\ Len(simple_groups[1]) = 2
    /\ Len(simple_groups[2]) = 1 /\ Len(simple_groups[3]) = 1

====
